---- MODULE Spec2Model ----
(***************************************************************************)
(* A model of byte-enum (src/src/byteEnum.ts): the three constructors      *)
(* createByteEnum, createCharEnum, createAlphaNumEnum and the seven        *)
(* utility operations every instance carries.                              *)
(*                                                                         *)
(* A JavaScript string is modelled as the sequence of its UTF-16 code      *)
(* units (so "A" is <<65>>, String.fromCharCode(i) is <<i>>), a JavaScript *)
(* value as a tagged record, a plain object as the sequence of its own     *)
(* properties in creation order, and a Map as the sequence of its entries. *)
(***************************************************************************)
EXTENDS Integers, Sequences, FiniteSets, TLC

VARIABLES input, inst, call, ret

vars == <<input, inst, call, ret>>

(***************************************************************************)
(* Bounds of the model.                                                    *)
(***************************************************************************)
\* longest name list drawn freely from the pool of names
MaxNames == 2
\* generated name lists (KEY_0, KEY_1, ...) have a length within Over of a capacity
Over == 1

(***************************************************************************)
(* JavaScript values.                                                      *)
(***************************************************************************)
Undefined == [t |-> "undefined"]

Num(n) == [t |-> "number", v |-> n]

Str(s) == [t |-> "string", v |-> s]

Bool(b) == [t |-> "boolean", v |-> b]

Fn(name) == [t |-> "function", v |-> name]

Arr(a) == [t |-> "array", v |-> a]

Throw(m) == [t |-> "throw", message |-> m]

\* !v for the values the code negates: undefined and the empty string are falsy
Falsy(v) == v = Undefined \/ v = Str(<<>>)

(***************************************************************************)
(* String primitives (ASCII range; the names and code sets of the model    *)
(* are ASCII).                                                             *)
(***************************************************************************)
upperUnit(c) == IF c \in 97..122 THEN c - 32 ELSE c

lowerUnit(c) == IF c \in 65..90 THEN c + 32 ELSE c

toUpperCase(s) == [i \in 1..Len(s) |-> upperUnit(s[i])]

toLowerCase(s) == [i \in 1..Len(s) |-> lowerUnit(s[i])]

\* s.charAt(0): the first code unit as a string, "" for the empty string
charAt0(s) == IF Len(s) = 0 THEN <<>> ELSE <<s[1]>>

\* s.slice(1)
slice1(s) == SubSeq(s, 2, Len(s))

\* s.split(sep) for a one-unit separator: always at least one segment
RECURSIVE splitFrom(_, _, _, _)
splitFrom(s, sep, i, cur) ==
  IF i > Len(s) THEN <<cur>>
  ELSE IF s[i] = sep THEN <<cur>> \o splitFrom(s, sep, i + 1, <<>>)
  ELSE splitFrom(s, sep, i + 1, Append(cur, s[i]))

split(s, sep) == splitFrom(s, sep, 1, <<>>)

\* parts.join(sep)
RECURSIVE join(_, _)
join(parts, sep) ==
  IF Len(parts) = 0 THEN <<>>
  ELSE IF Len(parts) = 1 THEN parts[1]
  ELSE parts[1] \o sep \o join(Tail(parts), sep)

\* the decimal digits of a natural number, as `${i}` renders it
RECURSIVE numberToString(_)
numberToString(n) ==
  IF n < 10 THEN <<48 + n>> ELSE numberToString(n \div 10) \o <<48 + (n % 10)>>

(***************************************************************************)
(* Plain objects: own properties in creation order.                        *)
(***************************************************************************)
ObjIndex(obj, k) ==
  IF \E i \in 1..Len(obj) : obj[i][1] = k
  THEN CHOOSE i \in 1..Len(obj) : obj[i][1] = k
  ELSE 0

\* obj.hasOwnProperty(k)
hasOwnProperty(obj, k) == ObjIndex(obj, k) # 0

\* obj[k]
ObjGet(obj, k) == IF hasOwnProperty(obj, k) THEN obj[ObjIndex(obj, k)][2] ELSE Undefined

\* ObjSet with a slip: a property that exists is not written again
ObjSet_FirstWins(obj, k, v) ==
  IF hasOwnProperty(obj, k) THEN obj ELSE Append(obj, <<k, v>>)

\* obj[k] = v: an existing property keeps its place, a new one goes last
ObjSet(obj, k, v) ==
  IF hasOwnProperty(obj, k)
  THEN [obj EXCEPT ![ObjIndex(obj, k)] = <<k, v>>]
  ELSE Append(obj, <<k, v>>)

\* a < b for digit strings of one length: the first differing digit decides
RECURSIVE LexLess(_, _)
LexLess(a, b) ==
  IF Len(a) = 0 THEN FALSE
  ELSE IF a[1] # b[1] THEN a[1] < b[1]
  ELSE LexLess(Tail(a), Tail(b))

\* a < b as numbers, for canonical digit strings
IndexLess(a, b) == Len(a) < Len(b) \/ (Len(a) = Len(b) /\ LexLess(a, b))

\* "4294967295", 2^32 - 1, the first integer that is not an array index
IndexLimit == <<52, 50, 57, 52, 57, 54, 55, 50, 57, 53>>

\* a property key that is a canonical array index ("0", "7", "10"; not "01")
IsArrayIndex(k) ==
  /\ Len(k) > 0
  /\ \A i \in 1..Len(k) : k[i] \in 48..57
  /\ (Len(k) = 1 \/ k[1] # 48)
  /\ IndexLess(k, IndexLimit)

\* the entries lo..hi of obj whose key is (wantIndex) or is not an array index,
\* in their order
RECURSIVE SelectEntries(_, _, _, _)
SelectEntries(obj, lo, hi, wantIndex) ==
  IF lo > hi THEN <<>>
  ELSE IF lo = hi
       THEN IF IsArrayIndex(obj[lo][1]) = wantIndex THEN <<obj[lo]>> ELSE <<>>
  ELSE LET mid == (lo + hi) \div 2
       IN  SelectEntries(obj, lo, mid, wantIndex)
             \o SelectEntries(obj, mid + 1, hi, wantIndex)

\* insertion sort of array-index entries by numeric key
RECURSIVE InsertByIndex(_, _)
InsertByIndex(sorted, e) ==
  IF Len(sorted) = 0 THEN <<e>>
  ELSE IF IndexLess(e[1], sorted[1][1])
       THEN <<e>> \o sorted
       ELSE <<sorted[1]>> \o InsertByIndex(Tail(sorted), e)

RECURSIVE SortByIndex(_)
SortByIndex(es) ==
  IF Len(es) = 0 THEN <<>>
  ELSE InsertByIndex(SortByIndex(SubSeq(es, 1, Len(es) - 1)), es[Len(es)])

\* Object.entries(obj): array-index keys ascending, then the other keys in
\* creation order
ObjectEntries(obj) ==
  SortByIndex(SelectEntries(obj, 1, Len(obj), TRUE))
    \o SelectEntries(obj, 1, Len(obj), FALSE)

(***************************************************************************)
(* Maps: entries in insertion order, keyed by value.                       *)
(***************************************************************************)
MapIndex(m, k) ==
  IF \E i \in 1..Len(m) : m[i][1] = k
  THEN CHOOSE i \in 1..Len(m) : m[i][1] = k
  ELSE 0

MapHas(m, k) == MapIndex(m, k) # 0

MapGet(m, k) == IF MapHas(m, k) THEN m[MapIndex(m, k)][2] ELSE Undefined

MapSet(m, k, v) ==
  IF MapHas(m, k)
  THEN [m EXCEPT ![MapIndex(m, k)] = <<k, v>>]
  ELSE Append(m, <<k, v>>)

(***************************************************************************)
(* The inputs of the model: names, name lists, code sets, codes, strings.  *)
(***************************************************************************)
\* "Non_Binary", "active", "ACTIVE", "10", "2"
NamePool ==
  { <<78, 111, 110, 95, 66, 105, 110, 97, 114, 121>>,
    <<97, 99, 116, 105, 118, 101>>,
    <<65, 67, 84, 73, 86, 69>>,
    <<49, 48>>,
    <<50>> }

\* every list of at most MaxNames names of the pool, repetitions included
RECURSIVE ListsOfLength(_)
ListsOfLength(n) ==
  IF n = 0 THEN {<<>>}
  ELSE {Append(l, k) : l \in ListsOfLength(n - 1), k \in NamePool}

ShortLists == UNION {ListsOfLength(n) : n \in 0..MaxNames}

\* Array.from({ length: n }, (_, i) => `KEY_${i}`)
GeneratedKeys(n) == [i \in 1..n |-> <<75, 69, 89, 95>> \o numberToString(i - 1)]

\* the character set of createAlphaNumEnum: 0-9, a-z, A-Z
AlphaNumCharSet ==
  <<48, 49, 50, 51, 52, 53, 54, 55, 56, 57, 
     97, 98, 99, 100, 101, 102, 103, 104, 105, 106, 107, 108, 109, 110, 111, 112, 113, 114, 115, 116, 117, 118, 119, 120, 121, 122,
     65, 66, 67, 68, 69, 70, 71, 72, 73, 74, 75, 76, 77, 78, 79, 80, 81, 82, 83, 84, 85, 86, 87, 88, 89, 90>>

\* the default character set: charSet += String.fromCharCode(i), i = 0 .. 255
defaultCharSet == [i \in 1..256 |-> i - 1]

\* the capacities the generated lists are sized around
Capacities == {Len(AlphaNumCharSet), Len(defaultCharSet)}

\* n names equal up to case: "active", "ACTIVE", "active", ...
AlternatingKeys(n) ==
  [i \in 1..n |-> IF i % 2 = 1 THEN <<97, 99, 116, 105, 118, 101>>
                  ELSE <<65, 67, 84, 73, 86, 69>>]

LongLists ==
  {GeneratedKeys(c + d) : c \in Capacities, d \in (0 - Over)..Over}
    \cup {AlternatingKeys(c + d) : c \in Capacities, d \in (0 - Over)..Over}

NameLists == ShortLists \cup LongLists

\* customCharSet: absent, "", "R", "PP", "RGB"
CharSetPool ==
  { Undefined, Str(<<>>), Str(<<82>>), Str(<<80, 80>>), Str(<<82, 71, 66>>) }

\* numbers passed to the queries of a byte enumeration
ByteCodePool == {Num(n) : n \in {0, 1, 2, 255, 256}}

\* strings passed to the queries of a character enumeration:
\* "\u0000", "\u0001", "0", "1", "P", "R", "G", "RG"
CharCodePool ==
  { Str(<<0>>), Str(<<1>>), Str(<<48>>), Str(<<49>>), Str(<<80>>), Str(<<82>>), Str(<<71>>),
    Str(<<82, 71>>) }

\* strings passed to isKey:
\* "active", "Active", "NON_BINARY", "non_binary", "10", "keys", "isKey", "KEY_256"
KeyQueryPool ==
  { <<97, 99, 116, 105, 118, 101>>,
    <<65, 99, 116, 105, 118, 101>>,
    <<78, 79, 78, 95, 66, 73, 78, 65, 82, 89>>,
    <<110, 111, 110, 95, 98, 105, 110, 97, 114, 121>>,
    <<49, 48>>,
    <<107, 101, 121, 115>>,
    <<105, 115, 75, 101, 121>>,
    <<75, 69, 89, 95, 50, 53, 54>> }

\* formatters passed to getFormattedName: key => `Custom: ${key}`, key => ''
FormatterPool == {"custom", "empty"}

formatter(f, key) ==
  IF f = "custom" THEN Str(<<67, 117, 115, 116, 111, 109, 58, 32>> \o key) ELSE Str(<<>>)

(***************************************************************************)
(* Construction.                                                           *)
(***************************************************************************)
ByteMessage == "Byte enum cannot have more than 256 values"

\* `Enum has too many values (max: ${charSet.length})`
CharMessage(charSet) == <<"Enum has too many values (max: ", Len(charSet), ")">>

\* ByteOverflow with a slip: off by one
ByteOverflow_OffByOne(index) == index >= 255

\* the guard of the byte reducer: index > 255
ByteOverflow(index) == index > 255

\* the guard of the character reducer: index >= charSet.length
CharOverflow(index, charSet) == index >= Len(charSet)

\* byteStep with a slip: the key is stored as given, not uppercased
byteStep_NoUpper(keys, i, r) ==
  IF r.threw THEN r
  ELSE IF i - 1 > 255 THEN [threw |-> TRUE, value |-> Throw(ByteMessage)]
  ELSE [threw |-> FALSE, value |-> ObjSet(r.value, keys[i], Num(i - 1))]

\* one call of the byte reducer, at position i (index i - 1); a throw ends the
\* reduction, so every later position leaves the thrown outcome as it is
byteStep(keys, i, r) ==
  IF r.threw THEN r
  ELSE IF ByteOverflow(i - 1) THEN [threw |-> TRUE, value |-> Throw(ByteMessage)]
  ELSE [threw |-> FALSE,
        value |-> ObjSet(r.value, toUpperCase(keys[i]), Num(i - 1))]

\* keys.reduce(...) of createByteEnum over positions lo..hi, left to right
RECURSIVE byteReduce(_, _, _, _)
byteReduce(keys, lo, hi, r) ==
  IF lo > hi THEN r
  ELSE IF lo = hi THEN byteStep(keys, lo, r)
  ELSE LET mid == (lo + hi) \div 2
           left == byteReduce(keys, lo, mid, r)
       IN  IF left.threw THEN left ELSE byteReduce(keys, mid + 1, hi, left)

\* one call of the character reducer
charStep(keys, charSet, i, r) ==
  IF r.threw THEN r
  ELSE IF CharOverflow(i - 1, charSet)
       THEN [threw |-> TRUE, value |-> Throw(CharMessage(charSet))]
  ELSE [threw |-> FALSE,
        value |-> ObjSet(r.value, toUpperCase(keys[i]), Str(<<charSet[i]>>))]

\* keys.reduce(...) of createCharEnum over positions lo..hi, left to right
RECURSIVE charReduce(_, _, _, _, _)
charReduce(keys, charSet, lo, hi, r) ==
  IF lo > hi THEN r
  ELSE IF lo = hi THEN charStep(keys, charSet, lo, r)
  ELSE LET mid == (lo + hi) \div 2
           left == charReduce(keys, charSet, lo, mid, r)
       IN  IF left.threw THEN left
           ELSE charReduce(keys, charSet, mid + 1, hi, left)

\* y, once x has been computed: the left part of a loop before its right part
Sequenced(x, y) == IF x = x THEN y ELSE y

\* populateEntry with a slip: a value the map already holds is not pushed again
populateEntry_SkipKnownValue(st, entry) ==
  [ valueToKeyMap |-> MapSet(st.valueToKeyMap, entry[2], entry[1]),
    keysList |-> Append(st.keysList, entry[1]),
    valuesList |-> IF MapHas(st.valueToKeyMap, entry[2]) THEN st.valuesList
                   ELSE Append(st.valuesList, entry[2]) ]

\* the body of the forEach callback: one entry into the map and the two lists
populateEntry(st, entry) ==
  [ valueToKeyMap |-> MapSet(st.valueToKeyMap, entry[2], entry[1]),
    keysList |-> Append(st.keysList, entry[1]),
    valuesList |-> Append(st.valuesList, entry[2]) ]

\* Object.entries(enumObject).forEach(...) over entries lo..hi, left to right
RECURSIVE populateFrom(_, _, _, _)
populateFrom(entries, lo, hi, st) ==
  IF lo > hi THEN st
  ELSE IF lo = hi THEN populateEntry(st, entries[lo])
  ELSE LET mid == (lo + hi) \div 2
           left == populateFrom(entries, lo, mid, st)
       IN  Sequenced(left, populateFrom(entries, mid + 1, hi, left))

populate(enumObject) ==
  LET entries == ObjectEntries(enumObject)
  IN  populateFrom(entries, 1, Len(entries),
                   [valueToKeyMap |-> <<>>, keysList |-> <<>>, valuesList |-> <<>>])

\* the property names of the utilities object, in the order it lists them
utilityNames ==
  << <<118, 97, 108, 117, 101, 115>>,
     <<107, 101, 121, 115>>,
     <<105, 115, 86, 97, 108, 117, 101>>,
     <<105, 115, 75, 101, 121>>,
     <<103, 101, 116, 75, 101, 121, 66, 121, 86, 97, 108, 117, 101>>,
     <<103, 101, 116, 68, 105, 115, 112, 108, 97, 121, 78, 97, 109, 101>>,
     <<103, 101, 116, 70, 111, 114, 109, 97, 116, 116, 101, 100, 78, 97, 109, 101>> >>

\* Object.assign(enumObject, utilities)
RECURSIVE assignFrom(_, _)
assignFrom(target, i) ==
  IF i > Len(utilityNames) THEN target
  ELSE assignFrom(ObjSet(target, utilityNames[i], Fn(utilityNames[i])), i + 1)

ObjectAssignUtilities(enumObject) == assignFrom(enumObject, 1)

\* the instance a constructor returns, built from the reduced object
makeInstance(kind, enumObject) ==
  LET st == populate(enumObject)
  IN  [ kind |-> kind,
        enumObject |-> ObjectAssignUtilities(enumObject),
        valueToKeyMap |-> st.valueToKeyMap,
        keysList |-> st.keysList,
        valuesList |-> st.valuesList ]

\* a constructor's outcome: [threw, value], value the instance or the error
createByteEnum(keys) ==
  LET r == byteReduce(keys, 1, Len(keys), [threw |-> FALSE, value |-> <<>>])
  IN  IF r.threw THEN r ELSE [threw |-> FALSE, value |-> makeInstance("byte", r.value)]

\* let charSet = customCharSet; if (!charSet) { ...all 256... }
effectiveCharSet(customCharSet) ==
  IF Falsy(customCharSet) THEN defaultCharSet ELSE customCharSet.v

createCharEnum(keys, customCharSet) ==
  LET r == charReduce(keys, effectiveCharSet(customCharSet), 1, Len(keys),
                      [threw |-> FALSE, value |-> <<>>])
  IN  IF r.threw THEN r ELSE [threw |-> FALSE, value |-> makeInstance("char", r.value)]

\* createAlphaNumEnum with a slip: the character set is not passed on
createAlphaNumEnum_NoCharSet(keys) == createCharEnum(keys, Undefined)

createAlphaNumEnum(keys) == createCharEnum(keys, Str(AlphaNumCharSet))

(***************************************************************************)
(* The utility operations, closed over the instance e.                     *)
(***************************************************************************)
values(e) == Arr(e.valuesList)

keys(e) == Arr(e.keysList)

\* isValue with a slip: the forward mapping is asked, so names are taken for
\* values
isValue_ChecksKeys(e, value) ==
  Bool(hasOwnProperty(e.enumObject,
                      IF value.t = "number" THEN numberToString(value.v)
                      ELSE value.v))

isValue(e, value) == Bool(MapHas(e.valueToKeyMap, value))

\* isKey with a slip: the key is looked up as given
isKey_NoUpper(e, key) == Bool(hasOwnProperty(e.enumObject, key))

\* enumObject.hasOwnProperty(key.toUpperCase()), enumObject being the instance
isKey(e, key) == Bool(hasOwnProperty(e.enumObject, toUpperCase(key)))

getKeyByValue(e, value) ==
  IF MapHas(e.valueToKeyMap, value)
  THEN Str(MapGet(e.valueToKeyMap, value))
  ELSE Undefined

\* word.charAt(0).toUpperCase() + word.slice(1)
capitalize(word) == toUpperCase(charAt0(word)) \o slice1(word)

\* titleCase with a slip: the key is not lowercased first
titleCase_NoLower(key) ==
  LET words == split(key, 95)
  IN  join([i \in 1..Len(words) |-> capitalize(words[i])], <<32>>)

\* key.toString().toLowerCase().split('_').map(...).join(' ')
titleCase(key) ==
  LET words == split(toLowerCase(key), 95)
  IN  join([i \in 1..Len(words) |-> capitalize(words[i])], <<32>>)

getDisplayName(e, value) ==
  LET key == getKeyByValue(e, value)
  IN  IF Falsy(key) THEN Str(<<>>) ELSE Str(titleCase(key.v))

\* getFormattedName with a slip: the formatter is handed the display name
getFormattedName_Titled(e, value, f) ==
  LET key == getKeyByValue(e, value)
  IN  IF Falsy(key) THEN Str(<<>>) ELSE formatter(f, titleCase(key.v))

\* getFormattedName with a slip: no check that the key was found, so the
\* formatter is handed undefined
getFormattedName_NoGuard(e, value, f) ==
  LET key == getKeyByValue(e, value)
  IN  IF key = Undefined
      THEN formatter(f, <<117, 110, 100, 101, 102, 105, 110, 101, 100>>)
      ELSE formatter(f, key.v)

getFormattedName(e, value, f) ==
  LET key == getKeyByValue(e, value)
  IN  IF Falsy(key) THEN Str(<<>>) ELSE formatter(f, key.v)

\* instance[name]: the forward mapping, read as a property of the instance
forward(e, name) == ObjGet(e.enumObject, name)

(***************************************************************************)
(* The state machine: one constructor call, then any number of queries on  *)
(* the instance it returned.                                               *)
(***************************************************************************)
NoInst ==
  [kind |-> "none", enumObject |-> <<>>, valueToKeyMap |-> <<>>,
   keysList |-> <<>>, valuesList |-> <<>>]

NoInput == [fn |-> "none", keys |-> <<>>, customCharSet |-> Undefined]

NoCall == [op |-> "none", args |-> <<>>]

Init ==
  /\ input = NoInput
  /\ inst = NoInst
  /\ call = NoCall
  /\ ret = Undefined

\* the outcome r of a constructor call: the instance is held, or the error is
Construct(fn, ks, cs, r) ==
  /\ input.fn = "none"
  /\ input' = [fn |-> fn, keys |-> ks, customCharSet |-> cs]
  /\ call' = [op |-> fn, args |-> <<>>]
  /\ inst' = IF r.threw THEN inst ELSE r.value
  /\ ret' = IF r.threw THEN r.value ELSE [t |-> "instance"]

CreateByteEnum ==
  \E ks \in NameLists : Construct("createByteEnum", ks, Undefined, createByteEnum(ks))

CreateCharEnum ==
  \E ks \in NameLists, cs \in CharSetPool :
    Construct("createCharEnum", ks, cs, createCharEnum(ks, cs))

CreateAlphaNumEnum ==
  \E ks \in NameLists :
    Construct("createAlphaNumEnum", ks, Undefined, createAlphaNumEnum(ks))

\* the codes a caller passes to an instance of this kind
CodePool(e) == IF e.kind = "byte" THEN ByteCodePool ELSE CharCodePool

Query(op, args, result) ==
  /\ inst.kind # "none"
  /\ call' = [op |-> op, args |-> args]
  /\ ret' = result
  /\ UNCHANGED <<input, inst>>

Values == Query("values", <<>>, values(inst))

Keys == Query("keys", <<>>, keys(inst))

IsValue == \E c \in CodePool(inst) : Query("isValue", <<c>>, isValue(inst, c))

IsKey == \E s \in KeyQueryPool : Query("isKey", <<s>>, isKey(inst, s))

GetKeyByValue ==
  \E c \in CodePool(inst) : Query("getKeyByValue", <<c>>, getKeyByValue(inst, c))

GetDisplayName ==
  \E c \in CodePool(inst) : Query("getDisplayName", <<c>>, getDisplayName(inst, c))

GetFormattedName ==
  \E c \in CodePool(inst), f \in FormatterPool :
    Query("getFormattedName", <<c, f>>, getFormattedName(inst, c, f))

Next ==
  \/ CreateByteEnum
  \/ CreateCharEnum
  \/ CreateAlphaNumEnum
  \/ Values
  \/ Keys
  \/ IsValue
  \/ IsKey
  \/ GetKeyByValue
  \/ GetDisplayName
  \/ GetFormattedName

Spec == Init /\ [][Next]_vars

(***************************************************************************)
(* A second constructor call while an instance is held.  Every constructor *)
(* builds its object, map and lists afresh and the module keeps no state   *)
(* of its own, so the call leaves the held instance alone; its outcome is  *)
(* an instance of its own, or the error.                                   *)
(***************************************************************************)
\* the name lists of the later calls: ["active"], ["active", "2"]
LaterNameLists ==
  { <<<<97, 99, 116, 105, 118, 101>>>>,
    <<<<97, 99, 116, 105, 118, 101>>, <<50>>>> }

\* LaterConstruct with a slip: the lookup structures are shared by all
\* instances, so a later construction replaces those of the held one
LaterConstruct_SharedState(fn, ks, cs, r) ==
  /\ inst.kind # "none"
  /\ call' = [op |-> fn, args |-> <<ks, cs>>]
  /\ ret' = IF r.threw THEN r.value ELSE [t |-> "instance"]
  /\ inst' = IF r.threw THEN inst ELSE r.value
  /\ UNCHANGED input

LaterConstruct(fn, ks, cs, r) ==
  /\ inst.kind # "none"
  /\ call' = [op |-> fn, args |-> <<ks, cs>>]
  /\ ret' = IF r.threw THEN r.value ELSE [t |-> "instance"]
  /\ UNCHANGED <<input, inst>>

LaterCreateByteEnum ==
  \E ks \in LaterNameLists :
    LaterConstruct("createByteEnum", ks, Undefined, createByteEnum(ks))

LaterCreateCharEnum ==
  \E ks \in LaterNameLists, cs \in CharSetPool :
    LaterConstruct("createCharEnum", ks, cs, createCharEnum(ks, cs))

LaterCreateAlphaNumEnum ==
  \E ks \in LaterNameLists :
    LaterConstruct("createAlphaNumEnum", ks, Undefined, createAlphaNumEnum(ks))

NextLater ==
  \/ CreateByteEnum
  \/ CreateCharEnum
  \/ CreateAlphaNumEnum
  \/ Values
  \/ Keys
  \/ IsValue
  \/ IsKey
  \/ GetKeyByValue
  \/ GetDisplayName
  \/ GetFormattedName
  \/ LaterCreateByteEnum
  \/ LaterCreateCharEnum
  \/ LaterCreateAlphaNumEnum

SpecLater == Init /\ [][NextLater]_vars

(***************************************************************************)
(* What the properties below speak of.                                     *)
(***************************************************************************)
Constructed == inst.kind # "none"

\* the input names, uppercased, in input order
UpperNames == [i \in 1..Len(input.keys) |-> toUpperCase(input.keys[i])]

\* no two input names are equal up to case
DistinctUpper ==
  Cardinality({UpperNames[i] : i \in 1..Len(input.keys)}) = Len(input.keys)

\* the code set the construction drew its codes from
UsedCharSet ==
  IF input.fn = "createAlphaNumEnum" THEN AlphaNumCharSet
  ELSE effectiveCharSet(input.customCharSet)

\* the code given to the i-th name (i from 1) when the reducer reached it
AssignedCode(i) ==
  IF input.fn = "createByteEnum" THEN Num(i - 1) ELSE Str(<<UsedCharSet[i]>>)

AssignedCodes == {AssignedCode(i) : i \in 1..Len(input.keys)}

\* no two input names were given the same code
DistinctCodes == Cardinality(AssignedCodes) = Len(input.keys)

QueryOps ==
  {"values", "keys", "isValue", "isKey", "getKeyByValue", "getDisplayName",
   "getFormattedName"}

(***************************************************************************)
(* C1: for names pairwise distinct after uppercasing, keys() is the        *)
(* sequence of uppercased input names in input order (createByteEnum and   *)
(* createCharEnum).  The code fails this for names that are array indices. *)
(***************************************************************************)
C1_KeysInInputOrder ==
  (/\ call.op = "keys"
   /\ input.fn \in {"createByteEnum", "createCharEnum"}
   /\ DistinctUpper)
    => ret = Arr(UpperNames)

(***************************************************************************)
(* C2: keys() and values() have one length, and the forward mapping binds  *)
(* keys()[i] to values()[i].                                               *)
(***************************************************************************)
C2_KeysValuesAligned ==
  Constructed =>
    /\ Len(keys(inst).v) = Len(values(inst).v)
    /\ \A i \in 1..Len(keys(inst).v) :
         forward(inst, keys(inst).v[i]) = values(inst).v[i]

\* values() has just been called on a character enumeration of two names
C2_Witness ==
  /\ call.op = "values"
  /\ inst.kind = "char"
  /\ Len(ret.v) = 2
  /\ Len(keys(inst).v) = 2

(***************************************************************************)
(* C3, as stated: for every index i of the input, the code c given to the  *)
(* i-th name has isValue(c) true and getKeyByValue(c) the uppercased i-th  *)
(* name: on the instance as returned, for every i, and in the result of    *)
(* every later isValue(c) and getKeyByValue(c) call.                       *)
(***************************************************************************)
C3_Holds(i) ==
  /\ call.op = input.fn =>
       /\ isValue(inst, AssignedCode(i)) = Bool(TRUE)
       /\ getKeyByValue(inst, AssignedCode(i)) = Str(UpperNames[i])
  /\ (call.op = "isValue" /\ call.args[1] = AssignedCode(i)) => ret = Bool(TRUE)
  /\ (call.op = "getKeyByValue" /\ call.args[1] = AssignedCode(i)) =>
       ret = Str(UpperNames[i])

C3_Original ==
  Constructed => \A i \in 1..Len(input.keys) : C3_Holds(i)

(***************************************************************************)
(* C3, amended: the same, for inputs whose names are pairwise distinct     *)
(* after uppercasing and whose names were given pairwise distinct codes.   *)
(***************************************************************************)
C3_ReverseLookup ==
  (Constructed /\ call.op \in {input.fn, "isValue", "getKeyByValue"}
     /\ DistinctUpper /\ DistinctCodes) =>
    \A i \in 1..Len(input.keys) : C3_Holds(i)

\* getKeyByValue has just returned the second name of a two-name input
C3_Witness ==
  /\ call.op = "getKeyByValue"
  /\ Len(input.keys) = 2
  /\ DistinctUpper /\ DistinctCodes
  /\ call.args[1] = AssignedCode(2)
  /\ ret = Str(UpperNames[2])

(***************************************************************************)
(* C4: a query about a code that was given to no input name returns        *)
(* normally: isValue false, getKeyByValue undefined, getDisplayName and    *)
(* getFormattedName the empty string, whatever the formatter.              *)
(***************************************************************************)
C4_UnknownCode ==
  (/\ call.op \in {"isValue", "getKeyByValue", "getDisplayName", "getFormattedName"}
   /\ call.args[1] \notin AssignedCodes)
    => ret = CASE call.op = "isValue" -> Bool(FALSE)
               [] call.op = "getKeyByValue" -> Undefined
               [] OTHER -> Str(<<>>)

\* getFormattedName has just been asked, with the prefixing formatter, about
\* a code that no name of a non-empty input was given
C4_Witness ==
  /\ call.op = "getFormattedName"
  /\ call.args[2] = "custom"
  /\ Len(input.keys) > 0
  /\ call.args[1] \notin AssignedCodes
  /\ ret = Str(<<>>)

(***************************************************************************)
(* C5: createByteEnum throws 'Byte enum cannot have more than 256 values'  *)
(* and returns no instance exactly when it is given more than 256 names,   *)
(* counted as given; otherwise it returns an instance.                     *)
(***************************************************************************)
C5_ByteCapacity ==
  input.fn = "createByteEnum" =>
    IF Len(input.keys) > 256
    THEN inst = NoInst /\ ret = Throw("Byte enum cannot have more than 256 values")
    ELSE inst.kind = "byte" /\ ret.t # "throw"

\* 257 names that are only two names up to case have just been refused
C5_Witness ==
  /\ input.fn = "createByteEnum"
  /\ Len(input.keys) = 257
  /\ Cardinality({UpperNames[i] : i \in 1..Len(input.keys)}) = 1
  /\ ret.t = "throw"

(***************************************************************************)
(* C6: for a supplied code set S of any length L and n names,              *)
(* createCharEnum throws, naming L as the maximum, and returns no instance *)
(* exactly when n > L; otherwise it returns an instance whose codes are    *)
(* characters of S.  The code fails this for the empty code set.           *)
(***************************************************************************)
C6_CharCapacity ==
  (input.fn = "createCharEnum" /\ input.customCharSet # Undefined) =>
    LET S == input.customCharSet.v
    IN  IF Len(input.keys) > Len(S)
        THEN /\ inst = NoInst
             /\ ret = Throw(<<"Enum has too many values (max: ", Len(S), ")">>)
        ELSE /\ inst.kind = "char"
             /\ \A i \in 1..Len(values(inst).v) :
                  \E j \in 1..Len(S) : values(inst).v[i] = Str(<<S[j]>>)

(***************************************************************************)
(* C7: codes are positional.  For an accepted input whose names are        *)
(* pairwise distinct after uppercasing, the forward mapping binds the i-th *)
(* uppercased name to i (byte, so values() is 0, 1, ..., n-1) or to the    *)
(* i-th character of the code set (char), the code set being code points  *)
(* 0..255 in order when none is supplied.  The code fails the values()     *)
(* part for names that are array indices.                                  *)
(***************************************************************************)
C7_CodeSet ==
  IF input.customCharSet = Undefined THEN [i \in 1..256 |-> i - 1]
  ELSE input.customCharSet.v

C7_Accepted ==
  \/ input.fn = "createByteEnum" /\ Len(input.keys) <= 256
  \/ input.fn = "createCharEnum" /\ Len(input.keys) <= Len(C7_CodeSet)

C7_PositionalCodes ==
  (C7_Accepted /\ DistinctUpper) =>
    /\ Constructed
    /\ \A i \in 1..Len(input.keys) :
         forward(inst, UpperNames[i]) =
           IF input.fn = "createByteEnum" THEN Num(i - 1) ELSE Str(<<C7_CodeSet[i]>>)
    /\ input.fn = "createByteEnum" =>
         values(inst) = Arr([i \in 1..Len(input.keys) |-> Num(i - 1)])

(***************************************************************************)
(* C8: createAlphaNumEnum(names) is createCharEnum(names, S62), S62 being  *)
(* "0".."9", "a".."z", "A".."Z": it throws on the same inputs, exactly     *)
(* those of more than 62 names, with the same error, and otherwise builds  *)
(* the same instance, the i-th of pairwise distinct names bound to the     *)
(* i-th character of S62.                                                  *)
(***************************************************************************)
C8_S62 ==
  [i \in 1..62 |-> IF i <= 10 THEN 47 + i ELSE IF i <= 36 THEN 86 + i ELSE 28 + i]

C8_AlphaNumIsCharEnum ==
  input.fn = "createAlphaNumEnum" =>
    LET r == createCharEnum(input.keys, Str(C8_S62))
    IN  /\ r.threw <=> Len(input.keys) > 62
        /\ r.threw <=> inst = NoInst
        /\ r.threw =>
             ret = Throw(<<"Enum has too many values (max: ", 62, ")">>)
        /\ ~r.threw =>
             /\ inst = r.value
             /\ call.op \in QueryOps =>
                  ret = CASE call.op = "values" -> values(r.value)
                          [] call.op = "keys" -> keys(r.value)
                          [] call.op = "isValue" -> isValue(r.value, call.args[1])
                          [] call.op = "isKey" -> isKey(r.value, call.args[1])
                          [] call.op = "getKeyByValue" ->
                               getKeyByValue(r.value, call.args[1])
                          [] call.op = "getDisplayName" ->
                               getDisplayName(r.value, call.args[1])
                          [] call.op = "getFormattedName" ->
                               getFormattedName(r.value, call.args[1], call.args[2])
             /\ DistinctUpper =>
                  \A i \in 1..Len(input.keys) :
                    forward(inst, UpperNames[i]) = Str(<<C8_S62[i]>>)

\* an alphanumeric enumeration of 62 names has just answered getKeyByValue("1")
C8_Witness ==
  /\ input.fn = "createAlphaNumEnum"
  /\ Len(input.keys) = 62
  /\ DistinctUpper
  /\ call.op = "getKeyByValue"
  /\ call.args[1] = Str(<<49>>)
  /\ ret = Str(UpperNames[2])

(***************************************************************************)
(* C9: isKey(s) is true exactly when s, uppercased, is the uppercased form *)
(* of an input name; so it answers alike for strings equal up to case, and *)
(* answers false for the names of the utility operations.                  *)
(***************************************************************************)
C9_IsUpperName(s) ==
  \E i \in 1..Len(input.keys) : toUpperCase(s) = UpperNames[i]

C9_IsKey ==
  /\ call.op = "isKey" => ret = Bool(C9_IsUpperName(call.args[1]))
  /\ Constructed =>
       /\ \A s, t \in KeyQueryPool :
            toUpperCase(s) = toUpperCase(t) => isKey(inst, s) = isKey(inst, t)
       /\ \A i \in 1..Len(utilityNames) :
            isKey(inst, utilityNames[i]) = Bool(C9_IsUpperName(utilityNames[i]))

\* isKey("active") has just answered true on an instance built from "ACTIVE"
\* and not from "active"
C9_Witness ==
  /\ call.op = "isKey"
  /\ call.args[1] = <<97, 99, 116, 105, 118, 101>>
  /\ \A i \in 1..Len(input.keys) : input.keys[i] # <<97, 99, 116, 105, 118, 101>>
  /\ ret = Bool(TRUE)

(***************************************************************************)
(* C10: for a code c bound to the name N (N is what getKeyByValue(c)       *)
(* returns), getDisplayName(c) is N split on underscores, each segment     *)
(* lowercased and its first character uppercased, the segments joined by   *)
(* single spaces; NON_BINARY gives "Non Binary", ACTIVE gives "Active".    *)
(***************************************************************************)
C10_Segment(seg) ==
  LET low == toLowerCase(seg)
  IN  IF Len(low) = 0 THEN <<>> ELSE <<upperUnit(low[1])>> \o Tail(low)

C10_Display(N) ==
  LET segs == split(N, 95)
  IN  join([i \in 1..Len(segs) |-> C10_Segment(segs[i])], <<32>>)

C10_DisplayName ==
  (call.op = "getDisplayName" /\ getKeyByValue(inst, call.args[1]) # Undefined) =>
    LET N == getKeyByValue(inst, call.args[1]).v
    IN  /\ ret = Str(C10_Display(N))
        /\ N = <<78, 79, 78, 95, 66, 73, 78, 65, 82, 89>>
             => ret = Str(<<78, 111, 110, 32, 66, 105, 110, 97, 114, 121>>)
        /\ N = <<65, 67, 84, 73, 86, 69>>
             => ret = Str(<<65, 99, 116, 105, 118, 101>>)

\* getDisplayName has just returned "Non Binary"
C10_Witness ==
  /\ call.op = "getDisplayName"
  /\ getKeyByValue(inst, call.args[1]) = Str(<<78, 79, 78, 95, 66, 73, 78, 65, 82, 89>>)
  /\ ret = Str(<<78, 111, 110, 32, 66, 105, 110, 97, 114, 121>>)

C12_Immutable ==
  [][Constructed =>
       /\ inst'.enumObject = inst.enumObject
       /\ inst'.valueToKeyMap = inst.valueToKeyMap
       /\ values(inst') = values(inst)
       /\ keys(inst') = keys(inst)
       /\ call'.op = "values" => ret' = values(inst)
       /\ call'.op = "keys" => ret' = keys(inst)]_vars

\* a later createCharEnum call has just thrown while an instance is held
C12_Witness ==
  /\ Constructed
  /\ call.op = "createCharEnum"
  /\ Len(call.args) = 2
  /\ ret.t = "throw"

(***************************************************************************)
(* C13: when two or more input names have one uppercased form,             *)
(* construction succeeds if the capacity check passes, the forward mapping *)
(* binds that name to the code of its last occurrence in the input, the    *)
(* name is in keys() exactly once and its entry in values() is that code.  *)
(***************************************************************************)
C13_WithinCapacity ==
  IF input.fn = "createByteEnum" THEN Len(input.keys) <= 256
  ELSE Len(input.keys) <= Len(UsedCharSet)

\* the last position of the input at which the name N stands
C13_LastOccurrence(N) ==
  LET at == {j \in 1..Len(input.keys) : UpperNames[j] = N}
  IN  CHOOSE j \in at : \A k \in at : k <= j

C13_LastWriteWins ==
  (/\ call.op \in {input.fn, "keys", "values"}
   /\ ~DistinctUpper
   /\ C13_WithinCapacity) =>
    /\ Constructed
    /\ LET ks == IF call.op = "keys" THEN ret.v ELSE keys(inst).v
           vs == IF call.op = "values" THEN ret.v ELSE values(inst).v
       IN  \A N \in {UpperNames[i] : i \in 1..Len(input.keys)} :
             LET code == AssignedCode(C13_LastOccurrence(N))
                 at == {p \in 1..Len(ks) : ks[p] = N}
             IN  /\ forward(inst, N) = code
                 /\ Cardinality(at) = 1
                 /\ Len(vs) = Len(ks)
                 /\ \A p \in at : vs[p] = code

\* values() has just returned [1] for createByteEnum(["active", "ACTIVE"])
C13_Witness ==
  /\ input.fn = "createByteEnum"
  /\ input.keys = <<<<97, 99, 116, 105, 118, 101>>, <<65, 67, 84, 73, 86, 69>>>>
  /\ call.op = "values"
  /\ ret = Arr(<<Num(1)>>)

(***************************************************************************)
(* C14: when the code set given to createCharEnum has one character at two *)
(* positions i < j of the name list (the names pairwise distinct after     *)
(* uppercasing, the list within the code set's length), construction       *)
(* succeeds, the i-th and j-th names are both bound to that character, the *)
(* character is in values() twice, and getKeyByValue of it is the name at  *)
(* the greatest such position.  The code fails the last part for names     *)
(* that are array indices.                                                 *)
(***************************************************************************)
\* the greatest position of the name list that holds the character ch of S
C14_LastPosition(S, ch) ==
  LET at == {k \in 1..Len(input.keys) : S[k] = ch}
  IN  CHOOSE k \in at : \A l \in at : l <= k

C14_Aliasing ==
  (/\ input.fn = "createCharEnum"
   /\ input.customCharSet # Undefined
   /\ input.customCharSet # Str(<<>>)
   /\ Len(input.keys) <= Len(input.customCharSet.v)
   /\ DistinctUpper) =>
    LET S == input.customCharSet.v
    IN  \A i, j \in 1..Len(input.keys) :
          (i < j /\ S[i] = S[j]) =>
            /\ Constructed
            /\ forward(inst, UpperNames[i]) = Str(<<S[i]>>)
            /\ forward(inst, UpperNames[j]) = Str(<<S[i]>>)
            /\ Cardinality({p \in 1..Len(values(inst).v) :
                              values(inst).v[p] = Str(<<S[i]>>)}) >= 2
            /\ getKeyByValue(inst, Str(<<S[i]>>))
                 = Str(UpperNames[C14_LastPosition(S, S[i])])
            /\ (call.op = "getKeyByValue" /\ call.args[1] = Str(<<S[i]>>)) =>
                 ret = Str(UpperNames[C14_LastPosition(S, S[i])])

(***************************************************************************)
(* C15: on every instance, whatever the input, a code c with isValue(c)    *)
(* true has getKeyByValue(c) in keys() and the forward mapping binds that  *)
(* name back to c; and isValue(c) is true exactly when c is in values().   *)
(***************************************************************************)
C15_Range(seq) == {seq[p] : p \in 1..Len(seq)}

C15_Holds(c, has, key) ==
  /\ has = Bool(c \in C15_Range(values(inst).v))
  /\ has = Bool(TRUE) =>
       /\ key # Undefined
       /\ key.v \in C15_Range(keys(inst).v)
       /\ forward(inst, key.v) = c

C15_RoundTrip ==
  Constructed =>
    /\ call.op = input.fn =>
         \A c \in CodePool(inst) \cup AssignedCodes \cup C15_Range(values(inst).v) :
           C15_Holds(c, isValue(inst, c), getKeyByValue(inst, c))
    /\ call.op = "isValue" =>
         C15_Holds(call.args[1], ret, getKeyByValue(inst, call.args[1]))
    /\ call.op = "getKeyByValue" =>
         C15_Holds(call.args[1], isValue(inst, call.args[1]), ret)

\* getKeyByValue has just returned the one name kept for a code that two
\* names were given
C15_Witness ==
  /\ call.op = "getKeyByValue"
  /\ DistinctUpper
  /\ ~DistinctCodes
  /\ ret # Undefined
  /\ forward(inst, ret.v) = call.args[1]

====
